---------------------------- MODULE Spec2Model ----------------------------
(***************************************************************************)
(* Parallel File Hasher: the producer (main), the worker threads, the work *)
(* queue with its mutex and condition variable, the result vector and the  *)
(* progress counter.                                                       *)
(*                                                                         *)
(* src/src/main.cpp holds two revisions of the program:                    *)
(*   variant "pool": lines 1-134, main() + process_file() on top of the    *)
(*                   ThreadPool class of src/src/ThreadPool.cpp;           *)
(*   variant "flag": lines 136-369, main() + worker() + get_file_hash()    *)
(*                   on the global file_queue / done_adding_files.         *)
(* Both run the same queue protocol; they differ in the task body.         *)
(* Thread 0 is the main thread, threads 1..MaxThreads are the workers.     *)
(***************************************************************************)
EXTENDS Integers, Sequences, FiniteSets, TLC

\* ------------------------------------------------------------------ bounds
\* Largest number of threads the host lets the process start.
MaxThreads == 2
\* Largest number of files the directory scan returns.
MaxFiles == 2
\* Largest number of follow-up tasks the tasks of OpenSpec submit themselves.
MaxLate == 1

\* Width of unsigned int (main.cpp:76, num_threads).
UIntBits == 32

MainThread == 0
Workers == 1..MaxThreads
Paths == 1..MaxFiles
Variants == {"pool", "flag"}

\* What follows the directory on the command line: no arguments at all, no
\* -j option, -j with text std::stoi cannot parse, or -j with an integer.
JArgs ==
    {[kind |-> k, val |-> 0] : k \in {"noargs", "none", "nan"}}
        \cup {[kind |-> "int", val |-> n] : n \in (-1)..1}

\* Every list of paths a scan can return: a directory iterator visits each
\* entry once, so the paths of a list are distinct.
FileLists == {[i \in 1..n |-> i] : n \in 0..MaxFiles}

VARIABLES
    variant,                \* which revision of main.cpp runs
    jArg,                   \* the -j argument given on the command line
    mainpc,                 \* position of the main thread
    exit_status,            \* "running", "exit0", "exit1", "terminate"
    num_threads,            \* main: unsigned int num_threads
    files_to_process,       \* main: std::vector<path> files_to_process
    total_files,            \* int total_files
    spawned,                \* number of worker threads started
    next_file,              \* index of the producer loop over files_to_process
    joined,                 \* number of worker threads joined
    tasks,                  \* ThreadPool::tasks / file_queue (ids of submitted)
    stop,                   \* ThreadPool::stop / done_adding_files
    queue_mutex,            \* set of threads holding queue_mutex ({} = free)
    results_mutex,          \* set of threads holding results_mutex
    cout_mutex,             \* set of threads holding cout_mutex
    wpc,                    \* position of each worker thread
    task,                   \* the task each worker has popped (0 = none)
    hash,                   \* worker local: std::string hash
    current_count,          \* worker local: int current_count
    results,                \* std::vector<pair<path, string>> results
    processed_files_count,  \* std::atomic<int> processed_files_count
    rendered,               \* the status lines written to std::cout, in order
    report,                 \* the report lines written after the join
    submitted,              \* history: path of every task pushed, by task id
    handed,                 \* history: <<worker, task id>> of every pop, in order
    outcome,                \* history: what each run of a task body came to
    message,                \* history: the message main left the run with
    late                    \* OpenSpec: follow-up tasks submitted by tasks

vars ==
    <<variant, jArg, mainpc, exit_status, num_threads, files_to_process,
      total_files, spawned, next_file, joined, tasks, stop, queue_mutex,
      results_mutex, cout_mutex, wpc, task, hash, current_count, results,
      processed_files_count, rendered, report, submitted, handed, outcome,
      message, late>>

mainVars ==
    <<num_threads, files_to_process, total_files, spawned, next_file, joined>>
lockVars == <<queue_mutex, results_mutex, cout_mutex>>
workerLocals == <<task, hash, current_count>>
sinkVars == <<results, processed_files_count, rendered>>
histVars == <<submitted, handed, outcome, message>>

\* ------------------------------------------------------------ pure helpers
\* picosha2::hash256_hex_string of the content of path p.
Digest(p) == [kind |-> "digest", of |-> p]
\* get_file_hash's answer for a file it cannot open.
OpenError == [kind |-> "Error: Could not open file.", of |-> 0]
NoHash == [kind |-> "", of |-> 0]

\* int -> unsigned int conversion of num_threads = std::stoi(...): a negative
\* n becomes 2^32 + n. That is beyond the integers of the model checker, so
\* the wrapped value is held one bit narrower, 2^31 + n; the program only
\* ever compares it with the loop index of the thread-starting loop.
ToUnsigned(n) == IF n >= 0 THEN n ELSE ((2 ^ (UIntBits - 2) - 1) * 2 + 1) + (n + 1)

\* The workers blocked in condition.wait.
Waiting == {w \in Workers : wpc[w] = "waiting"}

Running == exit_status = "running"

Init ==
    /\ variant \in Variants
    /\ jArg \in JArgs
    /\ mainpc = "parse"
    /\ exit_status = "running"
    /\ num_threads = 0
    /\ files_to_process = <<>>
    /\ total_files = 0
    /\ spawned = 0
    /\ next_file = 1
    /\ joined = 0
    /\ tasks = <<>>
    /\ stop = FALSE
    /\ queue_mutex = {}
    /\ results_mutex = {}
    /\ cout_mutex = {}
    /\ wpc = [w \in Workers |-> "unborn"]
    /\ task = [w \in Workers |-> 0]
    /\ hash = [w \in Workers |-> NoHash]
    /\ current_count = [w \in Workers |-> 0]
    /\ results = <<>>
    /\ processed_files_count = 0
    /\ rendered = <<>>
    /\ report = <<>>
    /\ submitted = <<>>
    /\ handed = <<>>
    /\ outcome = <<>>
    /\ message = ""
    /\ late = 0


\* ------------------------------------------------------------- main thread
\* Leaving main with the given status ends the process.
Exit(status) ==
    /\ exit_status' = status
    /\ mainpc' = "done"

\* An error path that reports success.
ErrorStatus_Zero == "exit0"

\* The status main returns from its error paths: return 1.
ErrorStatus == "exit1"

\* Argument parsing. hardware_concurrency() may report 0; a -j value is
\* taken through std::stoi into the unsigned num_threads, and a value stoi
\* throws on is dropped by the empty catch (...).
Parse ==
    /\ Running /\ mainpc = "parse"
    /\ IF jArg.kind = "noargs"
         THEN /\ message' = "Usage"
              /\ Exit(ErrorStatus)
              /\ UNCHANGED num_threads
         ELSE /\ \E hardware_concurrency \in 0..MaxThreads :
                    num_threads' = IF jArg.kind = "int"
                                     THEN ToUnsigned(jArg.val)
                                     ELSE hardware_concurrency
              /\ mainpc' = "checkdir"
              /\ UNCHANGED <<exit_status, message>>
    /\ UNCHANGED <<variant, jArg, files_to_process, total_files, spawned,
                   next_file, joined, tasks, stop, lockVars, wpc, workerLocals,
                   sinkVars, report, submitted, handed, outcome, late>>

\* if (!std::filesystem::is_directory(directory_path)) return 1;
CheckDir ==
    /\ Running /\ mainpc = "checkdir"
    /\ \E is_directory \in BOOLEAN :
          IF is_directory
            THEN mainpc' = "scan" /\ UNCHANGED <<exit_status, message>>
            ELSE message' = "Error: Not a valid directory." /\ Exit(ErrorStatus)
    /\ UNCHANGED <<variant, jArg, mainVars, tasks, stop, lockVars, wpc,
                   workerLocals, sinkVars, report, submitted, handed, outcome,
                   late>>

\* A pool that starts a first worker before it looks at num_threads.
AfterScan_AlwaysSpawns == "spawn"

\* Where main goes once total_files is known to be positive.
AfterScan == IF num_threads = 0 THEN "enq_lock" ELSE "spawn"

\* A scan that goes on to the pool even with nothing to hash.
NothingToDo_Unchecked(n) == FALSE

\* if (total_files == 0) return 0;
NothingToDo(n) == n = 0

\* File discovery: a filesystem_error ends the run with status 1, an empty
\* list with status 0.
Scan ==
    /\ Running /\ mainpc = "scan"
    /\ \/ /\ message' = "Filesystem error"
          /\ Exit(ErrorStatus)
          /\ UNCHANGED <<files_to_process, total_files>>
       \/ \E found \in FileLists :
             /\ files_to_process' = found
             /\ total_files' = Len(found)
             /\ IF NothingToDo(Len(found))
                  THEN message' = "No matching files found." /\ Exit("exit0")
                  ELSE mainpc' = AfterScan /\ UNCHANGED <<exit_status, message>>
    /\ UNCHANGED <<variant, jArg, num_threads, spawned, next_file, joined,
                   tasks, stop, lockVars, wpc, workerLocals, sinkVars, report,
                   submitted, handed, outcome, late>>

\* One turn of the loop that starts the worker threads. std::thread throws
\* std::system_error when the host cannot start another thread; nothing
\* catches it, so the process is terminated.
Spawn ==
    /\ Running /\ mainpc = "spawn"
    /\ IF spawned < MaxThreads
         THEN /\ wpc' = [wpc EXCEPT ![spawned + 1] = "lock"]
              /\ spawned' = spawned + 1
              /\ mainpc' = IF spawned + 1 = num_threads THEN "enq_lock" ELSE "spawn"
              /\ UNCHANGED exit_status
         ELSE /\ exit_status' = "terminate"
              /\ UNCHANGED <<wpc, spawned, mainpc>>
    /\ UNCHANGED <<variant, jArg, num_threads, files_to_process, total_files,
                   next_file, joined, tasks, stop, lockVars, workerLocals,
                   sinkVars, report, histVars, late>>

\* std::unique_lock<std::mutex> lock(queue_mutex) by thread t.
LockQueue(t) ==
    /\ queue_mutex = {}
    /\ queue_mutex' = {t}

\* A push that puts the new task in front of the waiting ones.
Push_Front(q, t) == <<t>> \o q

\* std::queue::push: the new task goes behind the waiting ones.
Push(q, t) == Append(q, t)

\* tasks.push(task) for path p, and the end of the lock's scope.
PushTask(p) ==
    /\ tasks' = Push(tasks, Len(submitted) + 1)
    /\ submitted' = Append(submitted, p)
    /\ outcome' = Append(outcome, "queued")
    /\ queue_mutex' = {}

\* A notification that reaches no thread.
NotifyOne_Lost(pcs) == {pcs}

\* condition.notify_one() with the threads at positions pcs: the positions
\* it can leave. It wakes one waiting thread, if there is one.
NotifyOne(pcs) ==
    IF \A w \in Workers : pcs[w] # "waiting"
      THEN {pcs}
      ELSE {[pcs EXCEPT ![w] = "lock"] : w \in {x \in Workers : pcs[x] = "waiting"}}

\* A shutdown that wakes one waiting thread only.
NotifyAll_WakesOne(pcs) == NotifyOne(pcs)

\* condition.notify_all(): wakes every waiting thread.
NotifyAll(pcs) ==
    {[w \in Workers |-> IF pcs[w] = "waiting" THEN "lock" ELSE pcs[w]]}

\* enqueue / producer loop, first half: take the queue lock.
EnqueueLock ==
    /\ Running /\ mainpc = "enq_lock"
    /\ LockQueue(MainThread)
    /\ mainpc' = "enq_push"
    /\ UNCHANGED <<variant, jArg, exit_status, mainVars, tasks, stop,
                   results_mutex, cout_mutex, wpc, workerLocals, sinkVars,
                   report, histVars, late>>

\* enqueue / producer loop: push under the lock, then release it.
EnqueuePush ==
    /\ Running /\ mainpc = "enq_push"
    /\ PushTask(files_to_process[next_file])
    /\ mainpc' = "enq_notify"
    /\ UNCHANGED <<variant, jArg, exit_status, mainVars, stop, results_mutex,
                   cout_mutex, wpc, workerLocals, sinkVars, report, handed, message,
                   late>>

\* enqueue / producer loop: notify_one after the lock is released, then the
\* next file, or the shutdown once every file is pushed.
EnqueueNotify ==
    /\ Running /\ mainpc = "enq_notify"
    /\ wpc' \in NotifyOne(wpc)
    /\ next_file' = next_file + 1
    /\ mainpc' = IF next_file < Len(files_to_process) THEN "enq_lock" ELSE "stop_lock"
    /\ UNCHANGED <<variant, jArg, exit_status, num_threads, files_to_process,
                   total_files, spawned, joined, tasks, stop, lockVars,
                   workerLocals, sinkVars, report, histVars, late>>

\* ~ThreadPool / "done adding": take the queue lock.
StopLock ==
    /\ Running /\ mainpc = "stop_lock"
    /\ LockQueue(MainThread)
    /\ mainpc' = "stop_set"
    /\ UNCHANGED <<variant, jArg, exit_status, mainVars, tasks, stop,
                   results_mutex, cout_mutex, wpc, workerLocals, sinkVars,
                   report, histVars, late>>

\* stop = true (done_adding_files = true) under the lock, then release it.
StopSet ==
    /\ Running /\ mainpc = "stop_set"
    /\ stop' = TRUE
    /\ queue_mutex' = {}
    /\ mainpc' = "notify_all"
    /\ UNCHANGED <<variant, jArg, exit_status, mainVars, tasks, results_mutex,
                   cout_mutex, wpc, workerLocals, sinkVars, report, histVars, late>>

\* condition.notify_all() after the lock is released.
StopNotify ==
    /\ Running /\ mainpc = "notify_all"
    /\ wpc' \in NotifyAll(wpc)
    /\ mainpc' = IF spawned = 0 THEN "report" ELSE "join"
    /\ UNCHANGED <<variant, jArg, exit_status, mainVars, tasks, stop, lockVars,
                   workerLocals, sinkVars, report, histVars, late>>

\* A join that returns at once, whatever the thread is doing.
Joinable_NoWait(w) == TRUE

\* worker.join() returns once that thread has left its function.
Joinable(w) == wpc[w] = "done"

\* One turn of the join loop over the worker threads, in creation order.
Join ==
    /\ Running /\ mainpc = "join"
    /\ Joinable(joined + 1)
    /\ joined' = joined + 1
    /\ mainpc' = IF joined + 1 = spawned THEN "report" ELSE "join"
    /\ UNCHANGED <<variant, jArg, exit_status, num_threads, files_to_process,
                   total_files, spawned, next_file, tasks, stop, lockVars, wpc,
                   workerLocals, sinkVars, report, histVars, late>>

\* The final report: one line per entry of results, then return 0.
Report ==
    /\ Running /\ mainpc = "report"
    /\ report' = results
    /\ Exit("exit0")
    /\ UNCHANGED <<variant, jArg, mainVars, tasks, stop, lockVars, wpc,
                   workerLocals, sinkVars, histVars, late>>

\* ---------------------------------------------------------- worker threads
\* The predicate of condition.wait(lock, ...): stop || !tasks.empty().
WaitPredicate == stop \/ tasks # <<>>

\* A worker that leaves as soon as the flag is up, backlog or not.
ExitCondition_IgnoresBacklog == stop

\* if (stop && tasks.empty()) return;
ExitCondition == stop /\ tasks = <<>>

\* A queue lock whose scope also spans the call of the task.
AfterPopScope_StillHeld(w) == {w}

\* The holder of queue_mutex once worker w has popped its task and left the
\* scope of its unique_lock: nobody.
AfterPopScope(w) == {}

\* The top of the worker loop, and the return from condition.wait: take the
\* queue lock, and under it wait (which releases the lock) while the
\* predicate is false; return, releasing the lock, when the pool is stopped
\* and drained; otherwise pop the front task and keep the lock.
WTake(w) ==
    /\ Running /\ wpc[w] = "lock"
    /\ queue_mutex = {}
    /\ IF ~WaitPredicate
         THEN /\ wpc' = [wpc EXCEPT ![w] = "waiting"]
              /\ UNCHANGED <<queue_mutex, tasks, task, handed>>
         ELSE IF ExitCondition
           THEN /\ wpc' = [wpc EXCEPT ![w] = "done"]
                /\ UNCHANGED <<queue_mutex, tasks, task, handed>>
           ELSE /\ queue_mutex' = {w}
                /\ task' = [task EXCEPT ![w] = Head(tasks)]
                /\ tasks' = Tail(tasks)
                /\ handed' = Append(handed, <<w, Head(tasks)>>)
                /\ wpc' = [wpc EXCEPT ![w] = "unlock"]
    /\ UNCHANGED <<variant, jArg, mainpc, exit_status, mainVars, stop,
                   results_mutex, cout_mutex, hash, current_count, sinkVars,
                   report, submitted, outcome, message, late>>

\* The closing brace of the queue scope: the lock is released before the
\* task runs.
WUnlock(w) ==
    /\ Running /\ wpc[w] = "unlock"
    /\ queue_mutex' = AfterPopScope(w)
    /\ wpc' = [wpc EXCEPT ![w] = "hash"]
    /\ UNCHANGED <<variant, jArg, mainpc, exit_status, mainVars, tasks, stop,
                   results_mutex, cout_mutex, workerLocals, sinkVars, report,
                   histVars, late>>

\* A spurious wakeup of condition.wait.
SpuriousWake(w) ==
    /\ Running /\ wpc[w] = "waiting"
    /\ wpc' = [wpc EXCEPT ![w] = "lock"]
    /\ UNCHANGED <<variant, jArg, mainpc, exit_status, mainVars, tasks, stop,
                   lockVars, workerLocals, sinkVars, report, histVars, late>>

\* What the task body does with a file it cannot open: process_file
\* ("pool") returns at once; get_file_hash ("flag") returns the error text,
\* which worker() records like a digest.
RecordsOpenFailure == variant = "flag"

\* The hashing step: open the file and hash its content.
WHash(w) ==
    /\ Running /\ wpc[w] = "hash"
    /\ \E is_open \in BOOLEAN :
          IF is_open
            THEN /\ hash' = [hash EXCEPT ![w] = Digest(submitted[task[w]])]
                 /\ outcome' = [outcome EXCEPT ![task[w]] = "hashed"]
                 /\ wpc' = [wpc EXCEPT ![w] = "results_lock"]
                 /\ UNCHANGED task
            ELSE /\ outcome' = [outcome EXCEPT ![task[w]] = "unopened"]
                 /\ IF RecordsOpenFailure
                      THEN /\ hash' = [hash EXCEPT ![w] = OpenError]
                           /\ wpc' = [wpc EXCEPT ![w] = "results_lock"]
                           /\ UNCHANGED task
                      ELSE /\ wpc' = [wpc EXCEPT ![w] = "lock"]
                           /\ task' = [task EXCEPT ![w] = 0]
                           /\ UNCHANGED hash
    /\ UNCHANGED <<variant, jArg, mainpc, exit_status, mainVars, tasks, stop,
                   lockVars, current_count, sinkVars, report, submitted, handed,
                   message, late>>

\* An exception leaves the hashing step (std::bad_alloc while the digest
\* string is built). Neither the task nor the worker loop has a handler, so
\* std::terminate ends the process.
WThrow(w) ==
    /\ Running /\ wpc[w] = "hash"
    /\ outcome' = [outcome EXCEPT ![task[w]] = "threw"]
    /\ exit_status' = "terminate"
    /\ UNCHANGED <<variant, jArg, mainpc, mainVars, tasks, stop, lockVars, wpc,
                   workerLocals, sinkVars, report, submitted, handed, message,
                   late>>

\* std::lock_guard<std::mutex> lock(results_mutex);
WResultsLock(w) ==
    /\ Running /\ wpc[w] = "results_lock"
    /\ results_mutex = {}
    /\ results_mutex' = {w}
    /\ wpc' = [wpc EXCEPT ![w] = "append"]
    /\ UNCHANGED <<variant, jArg, mainpc, exit_status, mainVars, tasks, stop,
                   queue_mutex, cout_mutex, workerLocals, sinkVars, report,
                   histVars, late>>

\* A sink that keeps one entry per path.
EmplaceBack_Dedup(rs, e) ==
    IF \E k \in 1..Len(rs) : rs[k][1] = e[1] THEN rs ELSE Append(rs, e)

\* A sink that drops the entries of files that did not open.
EmplaceBack_SkipFailures(rs, e) == IF e[2] = OpenError THEN rs ELSE Append(rs, e)

\* results.emplace_back(path, hash): one more entry at the end, whatever
\* the vector already holds.
EmplaceBack(rs, e) == Append(rs, e)

\* results.emplace_back(file_path, hash); and the end of the guard's scope.
WAppend(w) ==
    /\ Running /\ wpc[w] = "append"
    /\ results' = EmplaceBack(results, <<submitted[task[w]], hash[w]>>)
    /\ results_mutex' = {}
    /\ wpc' = [wpc EXCEPT ![w] = "count"]
    /\ UNCHANGED <<variant, jArg, mainpc, exit_status, mainVars, tasks, stop,
                   queue_mutex, cout_mutex, workerLocals, processed_files_count,
                   rendered, report, histVars, late>>

\* The value of processed_files_count++ : the count before the increment.
PreIncrement_Post == processed_files_count

\* The value of ++processed_files_count : the count after the increment.
PreIncrement == processed_files_count + 1

\* int current_count = ++processed_files_count;   (one atomic operation)
WCount(w) ==
    /\ Running /\ wpc[w] = "count"
    /\ processed_files_count' = processed_files_count + 1
    /\ current_count' = [current_count EXCEPT ![w] = PreIncrement]
    /\ wpc' = [wpc EXCEPT ![w] = "cout_lock"]
    /\ UNCHANGED <<variant, jArg, mainpc, exit_status, mainVars, tasks, stop,
                   lockVars, task, hash, results, rendered, report, histVars,
                   late>>

\* A status line written without taking the lock.
CoutFree_Unchecked == TRUE

\* cout_mutex is not held: a lock_guard on it can be constructed.
CoutFree == cout_mutex = {}

\* std::lock_guard<std::mutex> lock(cout_mutex);
WCoutLock(w) ==
    /\ Running /\ wpc[w] = "cout_lock"
    /\ CoutFree
    /\ cout_mutex' = {w}
    /\ wpc' = [wpc EXCEPT ![w] = "render"]
    /\ UNCHANGED <<variant, jArg, mainpc, exit_status, mainVars, tasks, stop,
                   queue_mutex, results_mutex, workerLocals, sinkVars, report,
                   histVars, late>>

\* The status line for current_count, the end of the guard's scope, and
\* back to the top of the worker loop: the locals of the finished task go
\* out of scope.
WRender(w) ==
    /\ Running /\ wpc[w] = "render"
    /\ rendered' = Append(rendered, current_count[w])
    /\ cout_mutex' = {}
    /\ task' = [task EXCEPT ![w] = 0]
    /\ hash' = [hash EXCEPT ![w] = NoHash]
    /\ current_count' = [current_count EXCEPT ![w] = 0]
    /\ wpc' = [wpc EXCEPT ![w] = "lock"]
    /\ UNCHANGED <<variant, jArg, mainpc, exit_status, mainVars, tasks, stop,
                   queue_mutex, results_mutex, results, processed_files_count,
                   report, histVars, late>>

\* ------------------------------------------- tasks that submit more tasks
\* ThreadPool::enqueue is public and takes any std::function<void()>: a
\* task may hold the pool and call enqueue from inside its body, at any
\* time until the destructor has joined its worker, that is also after stop
\* was set. These three steps are that call, made by the task worker w runs.
WLateLock(w) ==
    /\ Running /\ variant = "pool"
    /\ wpc[w] = "hash"
    /\ late < MaxLate
    /\ LockQueue(w)
    /\ late' = late + 1
    /\ wpc' = [wpc EXCEPT ![w] = "late_push"]
    /\ UNCHANGED <<variant, jArg, mainpc, exit_status, mainVars, tasks, stop,
                   results_mutex, cout_mutex, workerLocals, sinkVars, report,
                   histVars>>

WLatePush(w) ==
    /\ Running /\ wpc[w] = "late_push"
    /\ \E p \in Paths : PushTask(p)
    /\ wpc' = [wpc EXCEPT ![w] = "late_notify"]
    /\ UNCHANGED <<variant, jArg, mainpc, exit_status, mainVars, stop,
                   results_mutex, cout_mutex, workerLocals, sinkVars, report,
                   handed, message, late>>

WLateNotify(w) ==
    /\ Running /\ wpc[w] = "late_notify"
    /\ wpc' \in NotifyOne([wpc EXCEPT ![w] = "hash"])
    /\ UNCHANGED <<variant, jArg, mainpc, exit_status, mainVars, tasks, stop,
                   lockVars, workerLocals, sinkVars, report, histVars, late>>

LateStep(w) ==
    \/ WLateLock(w)
    \/ WLatePush(w)
    \/ WLateNotify(w)

\* ---------------------------------------------------------- specifications
MainStep ==
    \/ Parse
    \/ CheckDir
    \/ Scan
    \/ Spawn
    \/ EnqueueLock
    \/ EnqueuePush
    \/ EnqueueNotify
    \/ StopLock
    \/ StopSet
    \/ StopNotify
    \/ Join
    \/ Report

\* A step of a worker whose task bodies run to their end.
WorkerStep(w) ==
    \/ WTake(w)
    \/ WUnlock(w)
    \/ WHash(w)
    \/ WResultsLock(w)
    \/ WAppend(w)
    \/ WCount(w)
    \/ WCoutLock(w)
    \/ WRender(w)

Next ==
    \/ MainStep
    \/ \E w \in Workers : WorkerStep(w)
    \/ \E w \in Workers : SpuriousWake(w)
    \/ \E w \in Workers : WThrow(w)

Spec == Init /\ [][Next]_vars

\* The same program with every task body running to its end, under the
\* least the scheduler promises: while some thread can take a step of its
\* code, one of them eventually does. No single thread is promised a turn,
\* and spurious wakeups may happen but are never promised.
Progress ==
    \/ MainStep
    \/ \E w \in Workers : WorkerStep(w)

LiveNext ==
    \/ Progress
    \/ \E w \in Workers : SpuriousWake(w)

\* The runs started without a -j option: hardware_concurrency() alone
\* chooses the number of workers, anything from 0 to MaxThreads.
LiveInit == Init /\ jArg.kind = "none"

LiveSpec ==
    /\ LiveInit
    /\ [][LiveNext]_vars
    /\ WF_vars(Progress)

\* The ThreadPool revision with tasks that may submit follow-up tasks.
OpenInit == Init /\ variant = "pool"

OpenNext ==
    \/ Next
    \/ \E w \in Workers : LateStep(w)

OpenSpec == OpenInit /\ [][OpenNext]_vars

\* ------------------------------------------------------- shared predicates
\* The worker threads that were started.
Started == 1..spawned

\* Every requested worker was started and has returned from its function.
AllWorkersExited ==
    /\ spawned = num_threads
    /\ \A w \in Started : wpc[w] = "done"

\* The shutdown was signalled and the join loop has returned.
JoinReturned == stop /\ mainpc \in {"report", "done"}

\* How often task id i was popped from the queue.
TimesHanded(i) == Cardinality({k \in 1..Len(handed) : handed[k][2] = i})

\* The entries of results for path p, whatever their hash.
EntriesFor(p) == {k \in 1..Len(results) : results[k][1] = p}

\* The entries of results that carry a digest / the failure marker.
SuccessEntries == {k \in 1..Len(results) : results[k][2].kind = "digest"}
FailureEntries == {k \in 1..Len(results) : results[k][2] = OpenError}

\* The task bodies that ran to their end.
Completed == {i \in 1..Len(outcome) : outcome[i] \in {"hashed", "unopened"}}

\* ------------------------------------------------------------------ claims

\* C1: with at least one worker, no task is ever popped twice, and once all
\* workers have exited the queue is empty and every file of the scan was
\* pushed, popped exactly once and run.
C1_ExactlyOnce ==
    /\ \A i \in 1..Len(submitted) : TimesHanded(i) <= 1
    /\ (num_threads >= 1 /\ AllWorkersExited) =>
          /\ tasks = <<>>
          /\ submitted = files_to_process
          /\ \A i \in 1..Len(submitted) : TimesHanded(i) = 1 /\ i \in Completed

\* C1 witness: two workers have exited after each ran one of two tasks.
C1_Witness ==
    /\ AllWorkersExited /\ num_threads = 2
    /\ Len(submitted) = 2
    /\ {handed[k][1] : k \in 1..Len(handed)} = {1, 2}

\* C2 as claimed: after the join, with 1..N+5 workers, results holds exactly
\* one entry per submitted path.
C2_OneEntryPerPath ==
    (JoinReturned /\ num_threads >= 1 /\ num_threads <= total_files + 5) =>
        /\ Len(results) = total_files
        /\ \A i \in 1..total_files :
              Cardinality(EntriesFor(files_to_process[i])) = 1

\* C3 as claimed: after the join every task whose file could not be opened
\* has an entry with the failure marker, every other task an entry with its
\* digest, and results holds N entries in all.
C3_FailureRecorded ==
    (JoinReturned /\ num_threads >= 1) =>
        /\ Len(results) = total_files
        /\ \A i \in 1..total_files :
              /\ outcome[i] = "unopened" =>
                    \E k \in FailureEntries : results[k][1] = submitted[i]
              /\ outcome[i] = "hashed" =>
                    \E k \in SuccessEntries : results[k][1] = submitted[i]

\* C4 as claimed: once all workers have terminated the progress counter
\* equals the number of submitted tasks, failed tasks included.
C4_CounterIsTotal ==
    (JoinReturned /\ num_threads >= 1) => processed_files_count = total_files

\* C5: a worker in the hashing step holds none of the three locks.
C5_NoLockWhileHashing ==
    \A w \in Workers :
        wpc[w] = "hash" => w \notin (queue_mutex \cup results_mutex \cup cout_mutex)

\* C5 witness: one worker hashes while another thread holds the queue lock.
C5_Witness ==
    \E w \in Workers :
        /\ wpc[w] = "hash"
        /\ queue_mutex # {}
        /\ w \notin queue_mutex

\* C6 as claimed: when the join returns, every task submitted before the
\* shutdown signal has completed.
C6_DrainedAtJoin ==
    JoinReturned =>
        /\ submitted = files_to_process
        /\ \A i \in 1..Len(submitted) : i \in Completed

\* C7: once the shutdown signal is raised, every worker leaves its loop and
\* main returns from the join and ends the run.
C7_ShutdownTerminates ==
    stop ~> (mainpc = "done" /\ \A w \in Started : wpc[w] = "done")

\* C7 witness: the shutdown was signalled with two workers and one task,
\* both workers have left their loop and the join has returned.
C7_Witness ==
    /\ JoinReturned /\ spawned = 2
    /\ \A w \in Started : wpc[w] = "done"
    /\ Len(handed) = 1

\* The -j value is text stoi rejects, or an integer that is not positive.
BadThreadCount ==
    \/ jArg.kind = "nan"
    \/ jArg.kind = "int" /\ jArg.val <= 0

\* C8 as claimed: a bad -j value ends the run with status 1 before any
\* worker is started and before any task is queued.
C8_BadCountRejected ==
    BadThreadCount =>
        /\ spawned = 0
        /\ submitted = <<>>
        /\ mainpc = "done" => exit_status = "exit1"

\* C9 as claimed: a task body that raises an exception leaves its worker
\* and the process running.
C9_ExceptionContained ==
    \A i \in 1..Len(outcome) : outcome[i] = "threw" => Running

\* C10 as claimed: once the pool has begun shutting down (stop is true) no
\* submit adds a task to the queue.
C10_NoSubmitAfterStop == [][stop => Len(tasks') <= Len(tasks)]_vars

\* C11: the report is made only after the join loop has returned, and by
\* then every started worker thread has left its function; no report line
\* exists before that.
C11_ReportAfterJoin ==
    /\ JoinReturned =>
          /\ joined = spawned
          /\ \A w \in Started : wpc[w] = "done"
    /\ report # <<>> => JoinReturned /\ mainpc = "done"

\* C11 witness: the report was made from a sink two workers have written.
C11_Witness ==
    /\ mainpc = "done" /\ spawned = 2
    /\ Len(report) = 2
    /\ \E k \in 1..Len(handed) : handed[k][1] = 1
    /\ \E k \in 1..Len(handed) : handed[k][1] = 2

\* The messages of main's error paths.
ErrorMessages == {"Usage", "Error: Not a valid directory.", "Filesystem error"}

\* The scan has completed without an error and found no file.
FoundNothing ==
    /\ mainpc \notin {"parse", "checkdir", "scan"}
    /\ message \notin ErrorMessages
    /\ total_files = 0

\* C12: a scan that finds no file ends the run with status 0, with no
\* worker started, no task queued or handed out, no result entry, and the
\* progress counter still 0.
C12_EmptyScan ==
    FoundNothing =>
        /\ mainpc = "done" /\ exit_status = "exit0"
        /\ spawned = 0 /\ \A w \in Workers : wpc[w] = "unborn"
        /\ submitted = <<>> /\ tasks = <<>> /\ handed = <<>>
        /\ results = <<>> /\ report = <<>>
        /\ processed_files_count = 0 /\ rendered = <<>>

\* C12 witness: two workers were asked for, the scan found nothing and the
\* run has ended.
C12_Witness ==
    /\ FoundNothing /\ num_threads = 2
    /\ message = "No matching files found."
    /\ exit_status = "exit0"

\* The started workers that were never handed a task.
IdleWorkers == {w \in Started : \A k \in 1..Len(handed) : handed[k][1] # w}

\* C13 as claimed: with more workers than tasks, once the join has returned
\* there is exactly one result entry per task, at least as many workers as
\* the surplus never ran a task, and every worker has left its loop.
C13_SurplusWorkers ==
    (JoinReturned /\ spawned = num_threads /\ num_threads > total_files) =>
        /\ Len(results) = total_files
        /\ Cardinality(IdleWorkers) >= num_threads - total_files
        /\ \A w \in Started : wpc[w] = "done"

\* C14: when the root is not a directory, or the scan meets a filesystem
\* error, the run ends with status 1 and without a pool: no worker thread
\* started, no task queued, no result entry.
C14_ErrorBeforePool ==
    message \in {"Error: Not a valid directory.", "Filesystem error"} =>
        /\ mainpc = "done" /\ exit_status = "exit1"
        /\ spawned = 0 /\ \A w \in Workers : wpc[w] = "unborn"
        /\ submitted = <<>> /\ tasks = <<>>
        /\ results = <<>> /\ report = <<>>

\* C14 witness: two workers were asked for and the scan met a filesystem
\* error.
C14_Witness ==
    /\ message = "Filesystem error" /\ num_threads = 2
    /\ exit_status = "exit1"

\* A worker is blocked in condition.wait although its predicate is true.
BlockedDespiteWork(w) == wpc[w] = "waiting" /\ WaitPredicate

\* C15: the notify_one that follows a push wakes a waiting worker when
\* there is one, the notify_all of the shutdown wakes every waiting worker,
\* and no worker stays blocked in condition.wait for ever while the queue is
\* non-empty or the stop flag is set.
C15_NoLostWakeup ==
    /\ [][/\ (mainpc = "enq_notify" /\ mainpc' # "enq_notify" /\ Waiting # {}) =>
               \E w \in Waiting : wpc'[w] # "waiting"
          /\ (mainpc = "notify_all" /\ mainpc' # "notify_all") =>
               \A w \in Waiting : wpc'[w] # "waiting"]_vars
    /\ \A w \in Workers : BlockedDespiteWork(w) ~> ~BlockedDespiteWork(w)

\* C15 witness: a task was pushed while both workers were waiting, and the
\* notification that follows the unlock has not been issued yet.
C15_Witness ==
    /\ mainpc = "enq_notify" /\ tasks # <<>>
    /\ Waiting = {1, 2}

\* C16: a worker leaves its loop only from a state in which the queue lock
\* is its to take, the queue is empty and the stop flag is set; a worker
\* that gets past the wait with the queue non-empty, stop flag set or not,
\* takes exactly one task, the front one, and does not leave.
C16_ExitOnlyWhenDrained ==
    [][\A w \in Workers :
          /\ (wpc[w] # "done" /\ wpc'[w] = "done") =>
                /\ wpc[w] = "lock" /\ queue_mutex = {}
                /\ stop /\ tasks = <<>>
          /\ (wpc[w] = "lock" /\ wpc'[w] # "lock" /\ tasks # <<>>) =>
                /\ wpc'[w] = "unlock"
                /\ task'[w] = Head(tasks)
                /\ tasks' = Tail(tasks)]_vars

\* C16 witness: main is already in the join loop, the stop flag set, and a
\* worker has just popped a task while another task is still queued.
C16_Witness ==
    /\ stop /\ mainpc = "join"
    /\ \E w \in Started : wpc[w] = "unlock" /\ task[w] # 0
    /\ tasks # <<>>

\* The pool is stopped: every worker has left its loop; for a pool without
\* workers, the join loop of the shutdown has returned.
PoolStopped ==
    /\ \A w \in Started : wpc[w] = "done"
    /\ Started # {} \/ JoinReturned

\* C17 as claimed: the stop flag is written only by a thread that holds the
\* queue lock and only from false to true, and the pool is stopped only
\* with the flag set and the queue empty.
C17_ForwardOnly ==
    [][/\ stop' # stop => (~stop /\ stop' /\ queue_mutex # {})
       /\ PoolStopped' => (stop' /\ tasks' = <<>>)]_vars

\* The workers inside the scope of the cout_mutex guard.
Rendering == {w \in Workers : wpc[w] = "render"}

\* C18: at most one worker is inside the render critical section, which is
\* exactly the holder of cout_mutex, and a worker about to increment the
\* progress counter holds neither cout_mutex nor any other lock.
C18_RenderSerialized ==
    /\ Cardinality(Rendering) <= 1
    /\ cout_mutex = Rendering
    /\ \A w \in Workers :
          wpc[w] = "count" =>
              w \notin cout_mutex \cup results_mutex \cup queue_mutex

\* C18 witness: one worker increments the counter while the other is
\* inside the render critical section.
C18_Witness ==
    \E w, v \in Started :
        /\ wpc[w] = "render" /\ cout_mutex = {w}
        /\ wpc[v] = "count"

\* C19 as claimed: the counter values shown by successive status lines, in
\* the order the lines are written, never decrease.
C19_MonotonicStatusLine ==
    \A i, j \in 1..Len(rendered) : i < j => rendered[i] <= rendered[j]

\* The workers that hold a counter value they have not rendered yet.
HoldingCount == {w \in Workers : wpc[w] \in {"cout_lock", "render"}}

\* The counter values obtained so far: those rendered and those still held.
ObtainedCounts ==
    {rendered[i] : i \in 1..Len(rendered)} \cup {current_count[w] : w \in HoldingCount}

\* C20: the values obtained from the counter by k completions are exactly
\* 1..k, each obtained once, and every rendered value lies between 1 and
\* total_files.
C20_AtomicAdvance ==
    /\ Len(rendered) + Cardinality(HoldingCount) = processed_files_count
    /\ ObtainedCounts = 1..processed_files_count
    /\ \A i \in 1..Len(rendered) : rendered[i] \in 1..total_files

\* C20 witness: both workers have incremented the counter and neither has
\* rendered yet; one more value is obtained and rendered later in the run.
C20_Witness ==
    /\ HoldingCount = {1, 2}
    /\ {current_count[1], current_count[2]} = {1, 2}
    /\ rendered = <<>>

\* The positions of a worker that has popped a task and not finished it.
InTask == {"unlock", "hash", "results_lock", "append", "count", "cout_lock",
           "render"}

\* The position that follows pc in a task that runs to completion: hash,
\* record the result, advance the counter, render, back to the queue lock.
TaskPath(pc) ==
    CASE pc = "unlock"       -> "hash"
      [] pc = "hash"         -> "results_lock"
      [] pc = "results_lock" -> "append"
      [] pc = "append"       -> "count"
      [] pc = "count"        -> "cout_lock"
      [] pc = "cout_lock"    -> "render"
      [] pc = "render"       -> "lock"

\* C21 as claimed: once the stop flag is set, a worker in the middle of a
\* task only ever moves to the next position of the task, and on the way
\* records a result, advances the counter and renders a status line; it is
\* back at the queue lock, where the flag is read, only after the render.
C21_NoMidTaskCancellation ==
    [][\A w \in Workers :
          (stop /\ wpc[w] \in InTask /\ wpc'[w] # wpc[w]) =>
              /\ wpc'[w] = TaskPath(wpc[w])
              /\ wpc[w] = "append" => Len(results') = Len(results) + 1
              /\ wpc[w] = "count" =>
                    processed_files_count' = processed_files_count + 1
              /\ wpc[w] = "render" => Len(rendered') = Len(rendered) + 1]_vars

\* C22: tasks leave the queue in the order they were pushed: the k-th pop
\* hands out the k-th task pushed, and the tasks still queued are the ones
\* pushed after every task handed out, in push order.
C22_FifoDequeue ==
    /\ \A k \in 1..Len(handed) : handed[k][2] = k
    /\ tasks = [k \in 1..Len(tasks) |-> Len(handed) + k]

\* C22 witness: two tasks were handed out in push order to two workers and
\* the result of the second was recorded before that of the first.
C22_Witness ==
    /\ Len(handed) = 2 /\ handed[1][1] # handed[2][1]
    /\ Len(results) = 2
    /\ results[1][1] = submitted[2] /\ results[2][1] = submitted[1]

\* Task i was hashed and its entry has been appended to results.
Recorded(i) ==
    /\ outcome[i] = "hashed"
    /\ \A w \in Workers :
          task[w] = i => wpc[w] \notin {"results_lock", "append"}

\* The recorded tasks that were submitted for path p.
RecordedFor(p) == {i \in 1..Len(submitted) : submitted[i] = p /\ Recorded(i)}

\* C23: results holds one digest entry per submission that was hashed and
\* recorded, not one per path: a path submitted and hashed twice has two
\* entries, and when every submission was hashed there are as many entries
\* as submissions.
C23_NoDeduplication ==
    /\ \A p \in Paths :
          Cardinality(EntriesFor(p) \cap SuccessEntries) = Cardinality(RecordedFor(p))
    /\ (AllWorkersExited /\ spawned > 0
          /\ \A i \in 1..Len(outcome) : outcome[i] = "hashed") =>
            Len(results) = Len(submitted)

\* C23 witness: the same path was submitted twice, both submissions were
\* hashed, and results holds two entries for it.
C23_Witness ==
    \E p \in Paths :
        /\ Cardinality({i \in 1..Len(submitted) : submitted[i] = p}) = 2
        /\ Cardinality(EntriesFor(p) \cap SuccessEntries) = 2

\* The locks thread t holds.
LocksHeld(t) ==
    {m \in {"queue_mutex", "results_mutex", "cout_mutex"} :
        \/ m = "queue_mutex" /\ t \in queue_mutex
        \/ m = "results_mutex" /\ t \in results_mutex
        \/ m = "cout_mutex" /\ t \in cout_mutex}

\* Thread t is at a statement that acquires a lock or waits on the
\* condition variable.
AtAcquire(t) ==
    IF t = MainThread
      THEN mainpc \in {"enq_lock", "stop_lock"}
      ELSE wpc[t] \in {"lock", "waiting", "results_lock", "cout_lock"}

\* C24: no thread holds two of the three locks, a thread that holds a lock
\* is never at a statement that waits for another, and so while the run is
\* not over some thread can always take a step.
C24_OneLockAtATime ==
    /\ \A t \in {MainThread} \cup Workers :
          /\ Cardinality(LocksHeld(t)) <= 1
          /\ LocksHeld(t) # {} => ~AtAcquire(t)
    /\ (Running /\ mainpc # "done") => ENABLED Progress

\* C24 witness: the three locks are held at once, by three threads.
C24_Witness ==
    /\ queue_mutex = {MainThread}
    /\ results_mutex # {} /\ cout_mutex # {}
    /\ results_mutex # cout_mutex

\* C25: the progress counter never exceeds the number of entries in
\* results nor total_files, and once the join loop has returned it equals
\* the number of entries.
C25_CounterBehindResults ==
    /\ processed_files_count <= Len(results)
    /\ processed_files_count <= total_files
    /\ JoinReturned => processed_files_count = Len(results)

\* C25 witness: two entries are in results while the counter still reads 1.
C25_Witness ==
    /\ Len(results) = 2
    /\ processed_files_count = 1

\* C26 as claimed: once the join loop has returned on a run with at least
\* one file, the last status line rendered shows total_files of
\* total_files.
C26_LastLineIsFull ==
    (JoinReturned /\ total_files >= 1) =>
        /\ rendered # <<>>
        /\ rendered[Len(rendered)] = total_files

\* C27: with zero worker threads no worker is ever started and no task is
\* ever handed out or recorded; when the join loop has returned, having
\* joined nothing, every discovered file's task is still in the queue; and
\* the run ends with an empty report and status 0.
C27_ZeroWorkers ==
    (num_threads = 0 /\ total_files >= 1) =>
        /\ spawned = 0 /\ joined = 0
        /\ handed = <<>> /\ results = <<>> /\ rendered = <<>>
        /\ \A i \in 1..Len(outcome) : outcome[i] = "queued"
        /\ JoinReturned =>
              /\ Len(tasks) = total_files
              /\ submitted = files_to_process
        /\ mainpc = "done" => (exit_status = "exit0" /\ stop /\ report = <<>>)

\* C27 witness: -j 0 with two files; the run has ended with status 0 and
\* both tasks are still queued.
C27_Witness ==
    /\ jArg = [kind |-> "int", val |-> 0]
    /\ num_threads = 0 /\ total_files = 2
    /\ mainpc = "done" /\ exit_status = "exit0"
    /\ Len(tasks) = 2

=============================================================================
